---------------------------- MODULE Spec2Model ----------------------------
(***************************************************************************)
(* Model of the Bluetooth task of the Mynd firmware                        *)
(* (Projects/Mynd/src/tasks/bluetooth/task_bluetooth.cpp): the status      *)
(* arbitration (handle_new_bt_state), the gated commit and the idle        *)
(* accounting of Callback_Idle, the notification handlers of               *)
(* actionslink_event_handlers, and the message handlers of                 *)
(* threadConfig.Callback, the power sequencing among them.                 *)
(*                                                                         *)
(* Time is the millisecond tick counter (get_systick).  The counter is a   *)
(* uint32_t in the source; the model checker's integers end at 2^31 - 1,   *)
(* so the counter is kept modulo U32Mod = 2^30 and UINT32_MAX is           *)
(* U32Mod - 1: every elapsed time is computed modulo the counter's width,  *)
(* as board_get_ms_since does.                                             *)
(***************************************************************************)
EXTENDS Integers, Sequences, FiniteSets, TLC

VARIABLES
    s_bluetooth,         \* the session record (static struct s_bluetooth)
    m_bt_status,         \* property Tub::Status
    m_streaming_active,  \* property Tub::StreamingActive
    sound_icons_active,  \* property Tua::SoundIconsActive (Audio task)
    power_state,         \* property Tus::PowerState (System task)
    jack_connected,      \* board_link_plug_detection_is_jack_connected()
    queue,               \* the task's message queue
    pc,                  \* where the task's execution context stands
    cur,                 \* the SetPowerState message a handler is working on
    ts,                  \* the local 'ts' of the Off handler
    now,                 \* get_systick()
    bt_power,            \* board_link_bluetooth_set_power
    bt_reset,            \* board_link_bluetooth_reset
    link_up,             \* actionslink_init done, actionslink_deinit not yet
    link_ready,          \* actionslink_is_ready()
    fx,                  \* what the last step did (its observable effects)
    src_reported,        \* an audio-source report arrived since the running/last On command began
    idle_acct,           \* since when the device count is 0, and the auto-off requests since then
    events,              \* number of environment inputs left
    commands,            \* number of power commands of the System task left
    ticks                \* number of idle ticks left

vars == << s_bluetooth, m_bt_status, m_streaming_active, sound_icons_active,
           power_state, jack_connected, queue, pc, cur, ts, now, bt_power,
           bt_reset, link_up, link_ready, fx, src_reported, idle_acct, events,
           commands, ticks >>

\* The budgets of the environment.
budgets == << events, commands >>

\* The settings and the board, which only the environment changes.
settings == << sound_icons_active, jack_connected >>
\* The power lines of the module and the transport.
lines == << bt_power, bt_reset, link_up >>

---------------------------------------------------------------------------
(* Bounds of the model. *)

\* Environment inputs (notifications, commands of other tasks, setting
\* changes) in one behaviour.
MaxEvents == 3

\* Power commands of the System task in one behaviour.
MaxCommands == 3

\* Idle ticks in one behaviour.
MaxTicks == 4

\* Time the queue wait may take before Callback_Idle runs (IdleMs nominal,
\* longer when nothing of interest happens in between).
IdleDelays == {10, 200, 1000}

\* Time the module lets pass, inside a handler's polling loop, before its
\* next notification (a multiple of the loop's 10 ms delay): in the wait of
\* the Off handler, and in the waits of the On handler.
OffPollDelays == {10, 500}
OnPollDelays == {10}

---------------------------------------------------------------------------
(* Program constants. *)

QUEUE_SIZE == 8
c_update_bt_state_ts_duration == 200
PowerOnGateMs == 1000
OffConfirmTimeoutMs == 1000
PollMs == 10
PreOffDelayMs == 1780
OnSettleDelayMs == 200
UsbMuteDelayMs == 200
BtConnectedHoldMs == 500
BtConnectedRetryMs == 50
AutoOffMs == 300000

U32Mod == 2^30
UINT32_MAX == U32Mod - 1

nullopt == "nullopt"

Statuses == {"None", "BluetoothPairing", "SlavePairing", "CsbChainMaster", "ChainSlave",
             "AuxConnected", "DfuMode", "UsbConnected", "BluetoothConnected",
             "BluetoothDisconnected"}
CsbStates == {"DISABLED", "BROADCASTING", "RECEIVER_CONNECTED", "RECEIVER_PAIRING"}
PairingStates == {"IDLE", "BT_PAIRING", "CSB_BROADCASTING", "CSB_RECEIVING"}
AudioSources == {"ANALOG", "USB", "A2DP1", "A2DP2"}
PowerStates == {"Off", "PreOff", "On", "Transition"}

\* board_get_ms_since(ts) at tick t: unsigned subtraction of the counter's width
board_get_ms_since(t0, t) == (t - t0) % U32Mod

\* TS_KEY_VALUE_CONST_MAP(SoundIconToLengthMapper, ...): the keys, and the values
SoundIconsWithLength == {"POSITIVE_FEEDBACK", "CHARGING", "BATTERY_LOW", "BT_PAIRING",
                         "MULTISPEAKER_CHAIN_MASTER_ENTERED",
                         "MULTISPEAKER_CHAIN_SLAVE_PAIRING", "POWER_ON"}
SoundIconToLengthMapper(icon) ==
    CASE icon = "POSITIVE_FEEDBACK" -> 180
      [] icon = "CHARGING" -> 1440
      [] icon = "BATTERY_LOW" -> 910
      [] icon = "BT_PAIRING" -> 4570
      [] icon = "MULTISPEAKER_CHAIN_MASTER_ENTERED" -> 4570
      [] icon = "MULTISPEAKER_CHAIN_SLAVE_PAIRING" -> 4570
      [] icon = "POWER_ON" -> 1670

\* TS_KEY_VALUE_CONST_MAP(CsbStateMapper, ...)
CsbStateMapper(csb_state) ==
    CASE csb_state = "BROADCASTING" -> "CsbChainMaster"
      [] csb_state = "RECEIVER_CONNECTED" -> "ChainSlave"
      [] csb_state = "RECEIVER_PAIRING" -> "SlavePairing"
      [] OTHER -> nullopt

\* TS_KEY_VALUE_CONST_MAP(PairingStateMapper, ...)
PairingStateMapper(pairing_state) ==
    CASE pairing_state = "BT_PAIRING" -> "BluetoothPairing"
      [] pairing_state = "CSB_BROADCASTING" -> "CsbChainMaster"
      [] pairing_state = "CSB_RECEIVING" -> "SlavePairing"
      [] OTHER -> nullopt

\* TS_KEY_VALUE_CONST_MAP(SoundIconMapper, ...)
SoundIconMapper(status) ==
    CASE status = "CsbChainMaster" -> "MULTISPEAKER_CHAIN_MASTER_ENTERED"
      [] status = "ChainSlave" -> "MULTISPEAKER_CHAIN_CONNECTED"
      [] status = "SlavePairing" -> "MULTISPEAKER_CHAIN_SLAVE_PAIRING"
      [] OTHER -> nullopt

---------------------------------------------------------------------------
(* Messages of the task's queue. *)

RequestSoundIcon(icon, mode, loop) ==
    [type |-> "RequestSoundIcon", sound_icon |-> icon, playback_mode |-> mode,
     loop_forever |-> loop]
StopPlayingSoundIcon(icon) == [type |-> "StopPlayingSoundIcon", sound_icon |-> icon]
SetPowerState(to, from) == [type |-> "SetPowerState", to |-> to, from |-> from]
Msg(type) == [type |-> type]

\* postMessage on the task's own queue: a full queue takes no message
Post(q, m) == IF Len(q) < QUEUE_SIZE THEN Append(q, m) ELSE q

RECURSIVE PostAll(_, _)
PostAll(q, ms) == IF ms = << >> THEN q ELSE PostAll(Post(q, Head(ms)), Tail(ms))

\* The effects of a step that has none but its name.
Fx(act) == [act |-> act, called |-> FALSE, computed |-> nullopt, commit |-> FALSE,
            posted |-> << >>, icons |-> << >>, audio |-> << >>, chip |-> << >>,
            notify |-> 0]

---------------------------------------------------------------------------
(* handle_new_bt_state and what it calls. *)

\* power_on_sound_icon_played()
power_on_sound_icon_played(s) == s.power_on_sound_icon_ts = UINT32_MAX

\* CanDecide without the return on the unknown audio source.
CanDecide_NoAudioSourceCheck(s, icons_active) ==
    ~(~power_on_sound_icon_played(s) /\ icons_active)

\* CanDecide without the return on the power-on sound icon.
CanDecide_NoPowerOnCheck(s, icons_active) == s.audio_source # nullopt

\* The two early returns of handle_new_bt_state.
CanDecide(s, icons_active) ==
    /\ s.audio_source # nullopt
    /\ ~(~power_on_sound_icon_played(s) /\ icons_active)

\* MapBtState with the DFU branch tested before the aux branch.
MapBtState_DfuBeforeAux(s, jack) ==
    LET mapped_csb_state == CsbStateMapper(s.csb_state)
        mapped_pairing_state == PairingStateMapper(s.pairing_state)
    IN  IF mapped_csb_state # nullopt THEN mapped_csb_state
        ELSE IF mapped_pairing_state # nullopt THEN mapped_pairing_state
        ELSE IF s.dfu_mode_is_active THEN "DfuMode"
        ELSE IF s.audio_source = "ANALOG" /\ jack THEN "AuxConnected"
        ELSE IF s.audio_source = "USB" /\ s.is_usb_source_available THEN "UsbConnected"
        ELSE IF s.is_connected THEN "BluetoothConnected"
        ELSE "BluetoothDisconnected"

\* The status of the snapshot: the if/else chain over the two mapped values
\* and the flags.
MapBtState(s, jack) ==
    LET mapped_csb_state == CsbStateMapper(s.csb_state)
        mapped_pairing_state == PairingStateMapper(s.pairing_state)
    IN  IF mapped_csb_state # nullopt THEN mapped_csb_state
        ELSE IF mapped_pairing_state # nullopt THEN mapped_pairing_state
        ELSE IF s.audio_source = "ANALOG" /\ jack THEN "AuxConnected"
        ELSE IF s.dfu_mode_is_active THEN "DfuMode"
        ELSE IF s.audio_source = "USB" /\ s.is_usb_source_available THEN "UsbConnected"
        ELSE IF s.is_connected THEN "BluetoothConnected"
        ELSE "BluetoothDisconnected"

\* IgnoreDuplicate for the chain master only.
IgnoreDuplicate_MasterOnly(previous_bt_state, bt_state) ==
    previous_bt_state = "CsbChainMaster" /\ bt_state = "CsbChainMaster"

\* "Ignore new CSB Master state if we are already in active CSB Master state"
IgnoreDuplicate(previous_bt_state, bt_state) ==
    \/ (previous_bt_state = "CsbChainMaster" /\ bt_state = "CsbChainMaster")
    \/ (previous_bt_state = "ChainSlave" /\ bt_state = "ChainSlave")

\* CommitSoundIcons that never asks for a repeated icon.
CommitSoundIcons_NeverLoops(previous_bt_state, bt_state) ==
    LET mapped_sound_icon == SoundIconMapper(bt_state)
    IN  IF mapped_sound_icon # nullopt
        THEN << RequestSoundIcon(mapped_sound_icon, "PLAY_IMMEDIATELY", FALSE) >>
        ELSE IF previous_bt_state \in {"CsbChainMaster", "ChainSlave"}
        THEN << RequestSoundIcon("MULTISPEAKER_CHAIN_DISCONNECTED", "PLAY_AFTER_CURRENT", FALSE) >>
        ELSE << >>

\* CommitSoundIcons that plays the chain-disconnected icon for a master only.
CommitSoundIcons_MasterOnly(previous_bt_state, bt_state) ==
    LET mapped_sound_icon == SoundIconMapper(bt_state)
        repeat_forever == bt_state \in {"BluetoothPairing", "SlavePairing"}
    IN  IF mapped_sound_icon # nullopt
        THEN << RequestSoundIcon(mapped_sound_icon, "PLAY_IMMEDIATELY", repeat_forever) >>
        ELSE IF previous_bt_state = "CsbChainMaster"
        THEN << RequestSoundIcon("MULTISPEAKER_CHAIN_DISCONNECTED", "PLAY_AFTER_CURRENT", FALSE) >>
        ELSE << >>

\* The sound icons a commit asks for: the icon of the new status, or the
\* chain-disconnected icon when a chain status is left.
CommitSoundIcons(previous_bt_state, bt_state) ==
    LET mapped_sound_icon == SoundIconMapper(bt_state)
        repeat_forever == bt_state \in {"BluetoothPairing", "SlavePairing"}
    IN  IF mapped_sound_icon # nullopt
        THEN << RequestSoundIcon(mapped_sound_icon, "PLAY_IMMEDIATELY", repeat_forever) >>
        ELSE IF previous_bt_state \in {"CsbChainMaster", "ChainSlave"}
        THEN << RequestSoundIcon("MULTISPEAKER_CHAIN_DISCONNECTED", "PLAY_AFTER_CURRENT", FALSE) >>
        ELSE << >>

\* ForwardToAudio that sends the status that was published before.
ForwardToAudio_Previous(previous_bt_state, bt_state) == << previous_bt_state >>

\* Task::Audio::postMessage(ot_id, bt_state)
ForwardToAudio(previous_bt_state, bt_state) == << bt_state >>

\* ContinueStreaming that does not look at the status.
ContinueStreaming_InPairingToo(s, status) == s.was_streaming

\* continue_streaming_check(), with the status just published
ContinueStreaming(s, status) ==
    s.was_streaming /\ status \notin {"BluetoothPairing", "SlavePairing"}

\* handle_new_bt_state(): the session, the published status, and the effects
handle_new_bt_state(s, previous_bt_state, icons_active, jack) ==
    LET none == [s |-> s, status |-> previous_bt_state, computed |-> nullopt,
                 commit |-> FALSE, posted |-> << >>, audio |-> << >>]
    IN  IF ~CanDecide(s, icons_active) THEN none
        ELSE LET bt_state == MapBtState(s, jack)
             IN  IF IgnoreDuplicate(previous_bt_state, bt_state)
                 THEN [none EXCEPT !.computed = bt_state]
                 ELSE LET resume == ContinueStreaming(s, bt_state)
                      IN  [s |-> [s EXCEPT !.was_streaming = IF resume THEN FALSE ELSE @],
                           status |-> bt_state,
                           computed |-> bt_state,
                           commit |-> TRUE,
                           posted |-> CommitSoundIcons(previous_bt_state, bt_state)
                                      \o (IF resume THEN << Msg("PlayPause") >> ELSE << >>),
                           audio |-> ForwardToAudio(previous_bt_state, bt_state)]

---------------------------------------------------------------------------
(* Callback_Idle and what it calls. *)

\* "Once power_on sound icon is played, the timestamp is set to UINT32_MAX"
SettlePowerOnSoundIcon(s, t) ==
    IF /\ s.power_on_sound_icon_ts # 0
       /\ s.power_on_sound_icon_ts # UINT32_MAX
       /\ board_get_ms_since(s.power_on_sound_icon_ts, t) > SoundIconToLengthMapper("POWER_ON")
    THEN [s EXCEPT !.power_on_sound_icon_ts = UINT32_MAX,
                   !.update_bt_state = TRUE,
                   !.update_bt_state_ts = t]
    ELSE s

\* Teufel::Core::mapValue(SoundIconToLengthMapper, curr_sound_icon).value_or(0)
CurrSoundIconLength(s) ==
    IF s.curr_sound_icon \in SoundIconsWithLength
    THEN SoundIconToLengthMapper(s.curr_sound_icon)
    ELSE 0

\* InfiniteSoundIcon that does not wait for the current sound icon to end.
InfiniteSoundIcon_NoWait(s, icon, condition, t) ==
    IF s.curr_sound_icon # icon /\ condition
    THEN << RequestSoundIcon(icon, "PLAY_IMMEDIATELY", TRUE) >>
    ELSE IF s.curr_sound_icon = icon /\ ~condition
    THEN << StopPlayingSoundIcon(icon) >>
    ELSE << >>

\* One entry of infinite_sound_icons: what the loop body posts for it.
InfiniteSoundIcon(s, icon, condition, t) ==
    IF s.curr_sound_icon # icon /\ condition
    THEN IF board_get_ms_since(s.curr_sound_icon_begin_ts, t) >= CurrSoundIconLength(s)
         THEN << RequestSoundIcon(icon, "PLAY_IMMEDIATELY", TRUE) >>
         ELSE << >>
    ELSE IF s.curr_sound_icon = icon /\ ~condition
    THEN << StopPlayingSoundIcon(icon) >>
    ELSE << >>

\* update_infinite_sound_icons(): the messages it posts
update_infinite_sound_icons(s, status, t) ==
    InfiniteSoundIcon(s, "BT_PAIRING", status = "BluetoothPairing", t)
    \o InfiniteSoundIcon(s, "MULTISPEAKER_CHAIN_SLAVE_PAIRING", status = "SlavePairing", t)

\* UpdateGate without the wait after the last change.
UpdateGate_NoDebounce(s, t) ==
    board_get_ms_since(s.power_on_sound_icon_ts, t) > PowerOnGateMs

\* The condition under which Callback_Idle calls handle_new_bt_state.
UpdateGate(s, t) ==
    /\ board_get_ms_since(s.update_bt_state_ts, t) > c_update_bt_state_ts_duration
    /\ board_get_ms_since(s.power_on_sound_icon_ts, t) > PowerOnGateMs

\* AutoOff that leaves the idle timer running when it requests the power-off.
AutoOff_KeepsTimer(s, t) ==
    IF s.number_of_connected_devices = 0
    THEN IF s.last_no_bt_connection_ts = 0
         THEN [s |-> [s EXCEPT !.last_no_bt_connection_ts = t], chip |-> << >>]
         ELSE IF board_get_ms_since(s.last_no_bt_connection_ts, t) >= AutoOffMs
         THEN [s |-> s, chip |-> << "set_power_state_OFF" >>]
         ELSE [s |-> s, chip |-> << >>]
    ELSE [s |-> [s EXCEPT !.last_no_bt_connection_ts = 0], chip |-> << >>]

\* AutoOff under the condition that the source has in a comment: the timer
\* runs only without DFU mode, pairing and chain, and is cleared otherwise.
AutoOff_RespectsActivity(s, t) ==
    IF /\ ~s.dfu_mode_is_active
       /\ s.pairing_state = "IDLE"
       /\ s.csb_state = "DISABLED"
    THEN AutoOff_KeepsTimer(s, t)
    ELSE [s |-> [s EXCEPT !.last_no_bt_connection_ts = 0], chip |-> << >>]

\* The auto-off block of Callback_Idle (power state On): session and chip commands.
AutoOff(s, t) ==
    IF s.number_of_connected_devices = 0
    THEN IF s.last_no_bt_connection_ts = 0
         THEN [s |-> [s EXCEPT !.last_no_bt_connection_ts = t], chip |-> << >>]
         ELSE IF board_get_ms_since(s.last_no_bt_connection_ts, t) >= AutoOffMs
         THEN [s |-> [s EXCEPT !.last_no_bt_connection_ts = 0],
               chip |-> << "set_power_state_OFF" >>]
         ELSE [s |-> s, chip |-> << >>]
    ELSE [s |-> [s EXCEPT !.last_no_bt_connection_ts = 0], chip |-> << >>]

\* AutoOffRuns without the test of the power state.
AutoOffRuns_Always(power) == TRUE

\* The auto-off block runs in the power state On only.
AutoOffRuns(power) == power = "On"

\* The account of the device count: since when it is 0, and how many auto-off
\* requests were made since the count became 0 or the power state became On,
\* whichever came later (history, not a variable of the program).
Account(acct, s0, s1, t, requested) ==
    LET z == IF s0.number_of_connected_devices > 0 /\ s1.number_of_connected_devices = 0
             THEN [zero_since |-> t, requests |-> 0]
             ELSE acct
    IN  [z EXCEPT !.requests = IF requested THEN @ + 1 ELSE @]

\* The body of Callback_Idle at tick t, as a function of what it reads: the
\* session, the published status, the sound icon setting, the jack and the
\* power state.
IdleTick(s, status, icons_active, jack, power, t) ==
    LET s1 == SettlePowerOnSoundIcon(s, t)
        icons == update_infinite_sound_icons(s1, status, t)
        go == s1.update_bt_state /\ UpdateGate(s1, t)
        r == IF go
             THEN handle_new_bt_state(s1, status, icons_active, jack)
             ELSE [s |-> s1, status |-> status, computed |-> nullopt,
                   commit |-> FALSE, posted |-> << >>, audio |-> << >>]
        s2 == IF go THEN [r.s EXCEPT !.update_bt_state = FALSE] ELSE s1
        a == IF AutoOffRuns(power) THEN AutoOff(s2, t) ELSE [s |-> s2, chip |-> << >>]
    IN  [s |-> a.s, status |-> r.status, called |-> go, computed |-> r.computed,
         commit |-> r.commit, posted |-> icons \o r.posted, icons |-> icons,
         audio |-> r.audio, chip |-> a.chip]

\* threadConfig.Callback_Idle, run after the queue stayed empty for d ms
Callback_Idle(d) ==
    /\ pc = "ready"
    /\ queue = << >>
    /\ ticks > 0
    /\ LET t == (now + d) % U32Mod
           a == IdleTick(s_bluetooth, m_bt_status, sound_icons_active, jack_connected,
                         power_state, t)
       IN  /\ now' = t
           /\ s_bluetooth' = a.s
           /\ m_bt_status' = a.status
           /\ queue' = PostAll(queue, a.posted)
           /\ fx' = [Fx("Callback_Idle") EXCEPT !.called = a.called,
                                                !.computed = a.computed,
                                                !.commit = a.commit,
                                                !.posted = a.posted,
                                                !.icons = a.icons,
                                                !.audio = a.audio,
                                                !.chip = a.chip]
           \* actionslink_tick() is called in power state On only
           /\ pc' = IF power_state = "On" /\ link_up THEN "idle_pump" ELSE "ready"
           /\ idle_acct' = Account(idle_acct, s_bluetooth, a.s, t, a.chip # << >>)
    /\ ticks' = ticks - 1
    /\ UNCHANGED << m_streaming_active, sound_icons_active, power_state, jack_connected,
                    cur, ts, bt_power, bt_reset, link_up, link_ready, src_reported, budgets >>

---------------------------------------------------------------------------
(* actionslink_tick(): the notifications of actionslink_event_handlers.    *)
(* A notification arrives inside an actionslink_tick() call: the one of    *)
(* Callback_Idle, or the one of a handler's polling loop, after d ms of    *)
(* polling during which the module said nothing.                           *)

\* OffWaitContinues without the timeout.
OffWaitContinues_NoTimeout(s, t0, t) == ~s.has_received_power_off_confirmation

\* The loop condition of the Off handler's wait.
OffWaitContinues(s, t0, t) ==
    board_get_ms_since(t0, t) < OffConfirmTimeoutMs /\ ~s.has_received_power_off_confirmation

InPump == pc \in {"idle_pump", "off_pump", "on_ready_pump", "on_src_pump"}

\* The task stands at the head of a polling loop whose condition holds.
InWait ==
    \/ pc = "off_wait" /\ OffWaitContinues(s_bluetooth, ts, now)
    \/ pc = "on_ready_wait" /\ ~link_ready
    \/ pc = "on_src_wait" /\ s_bluetooth.audio_source = nullopt

\* d ms of silent polling keep the task in its loop (the loop condition held
\* at the head of every iteration).
PollAllowed(d) ==
    pc = "off_wait" => OffWaitContinues(s_bluetooth, ts, (now + d - PollMs) % U32Mod)

PumpOf(p) == CASE p = "off_wait" -> "off_pump"
               [] p = "on_ready_wait" -> "on_ready_pump"
               [] p = "on_src_wait" -> "on_src_pump"
               [] OTHER -> p

HeadOf(p) == CASE p = "off_pump" -> "off_wait"
               [] p = "on_ready_pump" -> "on_ready_wait"
               [] p = "on_src_pump" -> "on_src_wait"
               [] OTHER -> "ready"

ArriveDelays ==
    IF InPump THEN {0}
    ELSE IF ~InWait THEN {}
    ELSE IF pc = "off_wait" THEN {d \in OffPollDelays : PollAllowed(d)}
    ELSE OnPollDelays

\* The frame of every notification: where and when it is delivered.
Arrive(d, extra) ==
    /\ link_up
    /\ events > 0
    /\ d \in ArriveDelays
    /\ now' = (now + d + extra) % U32Mod
    /\ pc' = PumpOf(pc)
    /\ events' = events - 1
    /\ UNCHANGED << sound_icons_active, power_state, jack_connected, cur, ts, bt_power,
                    bt_reset, link_up, commands, ticks >>

\* actionslink_tick() returns
PumpDone ==
    /\ InPump
    /\ pc' = HeadOf(pc)
    /\ fx' = Fx("actionslink_tick")
    /\ UNCHANGED << s_bluetooth, m_bt_status, m_streaming_active, sound_icons_active,
                    power_state, jack_connected, queue, cur, ts, now, bt_power, bt_reset,
                    link_up, link_ready, src_reported, idle_acct, budgets, ticks >>

\* SetUpdate that leaves the timestamp as it is.
SetUpdate_KeepsTimestamp(s, t) == [s EXCEPT !.update_bt_state = TRUE]

\* update_bt_state = true; update_bt_state_ts = get_systick();
SetUpdate(s, t) == [s EXCEPT !.update_bt_state = TRUE, !.update_bt_state_ts = t]

\* The module reports that it is ready once after its start.
on_notify_system_ready ==
    \E d \in ArriveDelays :
        /\ link_up
        /\ ~link_ready
        /\ now' = (now + d) % U32Mod
        /\ pc' = PumpOf(pc)
        /\ UNCHANGED << sound_icons_active, power_state, jack_connected, cur, ts, bt_power,
                        bt_reset, link_up, budgets, ticks >>
        /\ link_ready' = TRUE
        /\ LET posts == << Msg("ActionsReady"), Msg("BatteryLevel"),
                           [type |-> "NotifyAuxConnectionChange", connected |-> jack_connected],
                           [type |-> "NotifyUsbConnectionChange",
                            connected |-> s_bluetooth.usb_plug_connected],
                           Msg("ChargerStatus") >>
           IN  /\ queue' = PostAll(queue, posts)
               /\ fx' = [Fx("on_notify_system_ready") EXCEPT !.posted = posts]
        /\ UNCHANGED << s_bluetooth, m_bt_status, m_streaming_active, src_reported, idle_acct >>

on_notify_power_state(power) ==
    \E d \in ArriveDelays :
        /\ Arrive(d, 0)
        /\ s_bluetooth' = IF power = "OFF"
                          THEN [s_bluetooth EXCEPT !.has_received_power_off_confirmation = TRUE]
                          ELSE s_bluetooth
        /\ fx' = Fx("on_notify_power_state")
        /\ UNCHANGED << m_bt_status, m_streaming_active, queue, link_ready, src_reported, idle_acct >>

on_notify_audio_source(audio_source) ==
    \E d \in ArriveDelays :
        /\ Arrive(d, 0)
        /\ s_bluetooth' = IF s_bluetooth.audio_source = audio_source
                          THEN s_bluetooth
                          ELSE SetUpdate([s_bluetooth EXCEPT !.audio_source = audio_source],
                                         (now + d) % U32Mod)
        /\ src_reported' = TRUE
        /\ UNCHANGED idle_acct
        /\ fx' = Fx("on_notify_audio_source")
        /\ UNCHANGED << m_bt_status, m_streaming_active, queue, link_ready >>

on_notify_stream_state(is_streaming) ==
    \E d \in ArriveDelays :
        /\ Arrive(d, 0)
        /\ m_streaming_active' = is_streaming
        /\ fx' = Fx("on_notify_stream_state")
        /\ UNCHANGED << s_bluetooth, m_bt_status, queue, link_ready, src_reported, idle_acct >>

\* OnConnection that leaves the idle timer as it is.
OnConnection_KeepsTimer(s) ==
    IF s.number_of_connected_devices < 2
    THEN [s EXCEPT !.number_of_connected_devices = @ + 1]
    ELSE s

\* OnConnection without the clamp.
OnConnection_NoClamp(s) ==
    [s EXCEPT !.number_of_connected_devices = @ + 1,
              !.last_no_bt_connection_ts = 0]

\* The session after a connection event: the count is clamped at 2.
OnConnection(s) ==
    IF s.number_of_connected_devices < 2
    THEN [s EXCEPT !.number_of_connected_devices = @ + 1,
                   !.last_no_bt_connection_ts = 0]
    ELSE s

\* OnDisconnection that starts the idle timer at every disconnection.
OnDisconnection_AlwaysStartsTimer(s, t) ==
    IF s.number_of_connected_devices > 0
    THEN [s EXCEPT !.number_of_connected_devices = @ - 1,
                   !.last_no_bt_connection_ts = t]
    ELSE s

\* The session after a disconnection event at tick t.
OnDisconnection(s, t) ==
    IF s.number_of_connected_devices > 0
    THEN LET s1 == [s EXCEPT !.number_of_connected_devices = @ - 1]
         IN  IF s1.number_of_connected_devices = 0 /\ s1.last_no_bt_connection_ts = 0
             THEN [s1 EXCEPT !.last_no_bt_connection_ts = t]
             ELSE s1
    ELSE s

on_notify_bt_connection ==
    \E d \in ArriveDelays :
        /\ Arrive(d, 0)
        /\ LET posts == << RequestSoundIcon("BT_CONNECTED", "PLAY_IMMEDIATELY", FALSE) >>
           IN  /\ queue' = PostAll(queue, posts)
               /\ fx' = [Fx("on_notify_bt_connection") EXCEPT !.posted = posts]
        /\ s_bluetooth' = OnConnection(s_bluetooth)
        /\ idle_acct' = Account(idle_acct, s_bluetooth, OnConnection(s_bluetooth),
                                (now + d) % U32Mod, FALSE)
        /\ UNCHANGED << m_bt_status, m_streaming_active, link_ready, src_reported >>

on_notify_bt_disconnection ==
    \E d \in ArriveDelays :
        /\ Arrive(d, 0)
        /\ LET had == s_bluetooth.number_of_connected_devices > 0
               posts == IF had
                        THEN << RequestSoundIcon("BT_DISCONNECTED", "PLAY_AFTER_CURRENT", FALSE) >>
                        ELSE << >>
               s1 == OnDisconnection(s_bluetooth, (now + d) % U32Mod)
           IN  /\ queue' = PostAll(queue, posts)
               /\ fx' = [Fx("on_notify_bt_disconnection") EXCEPT !.posted = posts]
               /\ s_bluetooth' = s1
               /\ idle_acct' = Account(idle_acct, s_bluetooth, s1, (now + d) % U32Mod, FALSE)
        /\ UNCHANGED << m_bt_status, m_streaming_active, link_ready, src_reported >>

on_notify_bt_pairing_state(state) ==
    \E d \in ArriveDelays :
        /\ Arrive(d, 0)
        /\ s_bluetooth' = SetUpdate([s_bluetooth EXCEPT !.pairing_state = state],
                                    (now + d) % U32Mod)
        /\ fx' = Fx("on_notify_bt_pairing_state")
        /\ UNCHANGED << m_bt_status, m_streaming_active, queue, link_ready, src_reported, idle_acct >>

on_notify_bt_connection_state(is_bt_connected) ==
    \E d \in ArriveDelays :
        /\ Arrive(d, 0)
        /\ s_bluetooth' = SetUpdate([s_bluetooth EXCEPT !.is_connected = is_bt_connected],
                                    (now + d) % U32Mod)
        /\ fx' = Fx("on_notify_bt_connection_state")
        /\ UNCHANGED << m_bt_status, m_streaming_active, queue, link_ready, src_reported, idle_acct >>

on_notify_csb_state(csb_state, disconnect_reason) ==
    \E d \in ArriveDelays :
        /\ Arrive(d, 0)
        /\ s_bluetooth' = SetUpdate([s_bluetooth EXCEPT !.csb_state = csb_state],
                                    (now + d) % U32Mod)
        /\ LET posts == IF disconnect_reason = "POWER_OFF"
                        THEN << SetPowerState("Off", "BroadcasterPowerOff") >>
                        ELSE << >>
           IN  /\ queue' = PostAll(queue, posts)
               /\ fx' = [Fx("on_notify_csb_state") EXCEPT !.posted = posts]
        /\ UNCHANGED << m_bt_status, m_streaming_active, link_ready, src_reported, idle_acct >>

on_notify_usb_connected(is_usb_connected) ==
    \E d \in ArriveDelays :
        \* board_link_amps_mute(true); vTaskDelay(200); board_link_amps_mute(false)
        /\ Arrive(d, IF ~is_usb_connected /\ m_bt_status = "UsbConnected"
                     THEN UsbMuteDelayMs ELSE 0)
        /\ s_bluetooth' = [s_bluetooth EXCEPT !.is_usb_source_available = is_usb_connected]
        /\ LET posts == IF is_usb_connected /\ m_bt_status \notin {"CsbChainMaster", "ChainSlave"}
                        THEN << Msg("StopPairingAndMultichain") >>
                        ELSE << >>
           IN  /\ queue' = PostAll(queue, posts)
               /\ fx' = [Fx("on_notify_usb_connected") EXCEPT !.posted = posts]
        /\ UNCHANGED << m_bt_status, m_streaming_active, link_ready, src_reported, idle_acct >>

on_notify_dfu_mode(is_dfu_mode_active) ==
    \E d \in ArriveDelays :
        /\ Arrive(d, 0)
        /\ s_bluetooth' = SetUpdate([s_bluetooth EXCEPT !.dfu_mode_is_active = is_dfu_mode_active],
                                    (now + d) % U32Mod)
        /\ fx' = Fx("on_notify_dfu_mode")
        /\ UNCHANGED << m_bt_status, m_streaming_active, queue, link_ready, src_reported, idle_acct >>

---------------------------------------------------------------------------
(* threadConfig.Callback: the handlers of the queue's messages. *)

\* The task takes the next message off its queue.
Handle(type) ==
    /\ pc = "ready"
    /\ queue # << >>
    /\ Head(queue).type = type

NoMessage == Msg("none")

\* SyncPrimitive::notify(ot_id) at the end of the SetPowerState handler: the
\* System task, when it sent the command, publishes the power state it asked for.
PowerStateAfter(m) == IF m.from = "System" THEN m.to ELSE power_state

\* case Tus::PowerState::PreOff, and default
SetPowerState_Other ==
    /\ Handle("SetPowerState")
    /\ Head(queue).to \notin {"Off", "On"}
    /\ now' = IF Head(queue).to = "PreOff" THEN (now + PreOffDelayMs) % U32Mod ELSE now
    /\ queue' = Tail(queue)
    /\ power_state' = PowerStateAfter(Head(queue))
    /\ fx' = [Fx("SetPowerState_" \o Head(queue).to) EXCEPT !.notify = 1]
    /\ UNCHANGED << s_bluetooth, m_bt_status, m_streaming_active, settings, pc, cur, ts,
                    lines, link_ready, src_reported, idle_acct, budgets, ticks >>

\* The result of actionslink_set_power_state(OFF): the request may fail.
PowerOffRequestResults == {"set_power_state_OFF", "set_power_state_OFF_failed"}

\* OffEntry that leaves the confirmation flag as it was.
OffEntry_KeepsConfirmation(s) == [s EXCEPT !.power_on_sound_icon_ts = 0]

\* The session at the entry of case Tus::PowerState::Off.
OffEntry(s) == [s EXCEPT !.has_received_power_off_confirmation = FALSE,
                         !.power_on_sound_icon_ts = 0]

\* case Tus::PowerState::Off, up to the head of the confirmation wait
SetPowerState_Off_Begin ==
    /\ Handle("SetPowerState")
    /\ Head(queue).to = "Off"
    /\ s_bluetooth' = OffEntry(s_bluetooth)
    /\ \E request \in PowerOffRequestResults :
           fx' = [Fx("SetPowerState_Off_Begin") EXCEPT !.chip = << request >>]
    /\ ts' = now
    /\ pc' = "off_wait"
    /\ cur' = Head(queue)
    /\ queue' = Tail(queue)
    /\ UNCHANGED << m_bt_status, m_streaming_active, settings, power_state, now, lines,
                    link_ready, src_reported, idle_acct, budgets, ticks >>

\* The wait of the Off handler while the module says nothing: the loop polls
\* every PollMs until its condition fails.
SetPowerState_Off_Poll ==
    /\ pc = "off_wait"
    /\ OffWaitContinues(s_bluetooth, ts, now)
    /\ LET elapsed == board_get_ms_since(ts, now)
           polls == (OffConfirmTimeoutMs - elapsed + PollMs - 1) \div PollMs
       IN  now' = (now + polls * PollMs) % U32Mod
    /\ fx' = Fx("SetPowerState_Off_Poll")
    /\ UNCHANGED << s_bluetooth, m_bt_status, m_streaming_active, settings, power_state,
                    queue, pc, cur, ts, lines, link_ready, src_reported, idle_acct, budgets, ticks >>

\* case Tus::PowerState::Off, after the wait
SetPowerState_Off_End ==
    /\ pc = "off_wait"
    /\ ~OffWaitContinues(s_bluetooth, ts, now)
    /\ link_up' = FALSE
    /\ link_ready' = FALSE
    /\ bt_reset' = TRUE
    /\ bt_power' = FALSE
    /\ s_bluetooth' = [s_bluetooth EXCEPT !.power_on_sound_icon_ts = 0]
    /\ pc' = "ready"
    /\ power_state' = PowerStateAfter(cur)
    /\ cur' = NoMessage
    /\ fx' = [Fx("SetPowerState_Off_End") EXCEPT
                 !.chip = << "actionslink_deinit" >>, !.notify = 1]
    /\ UNCHANGED << m_bt_status, m_streaming_active, settings, queue, ts, now,
                    src_reported, idle_acct, budgets, ticks >>

\* case Tus::PowerState::On, up to the head of the wait for actionslink_is_ready()
SetPowerState_On_Begin ==
    /\ Handle("SetPowerState")
    /\ Head(queue).to = "On"
    /\ bt_reset' = FALSE
    /\ bt_power' = TRUE
    /\ link_up' = TRUE
    /\ link_ready' = FALSE
    /\ src_reported' = FALSE
    /\ UNCHANGED idle_acct
    /\ pc' = "on_ready_wait"
    /\ cur' = Head(queue)
    /\ queue' = Tail(queue)
    /\ fx' = [Fx("SetPowerState_On_Begin") EXCEPT !.chip = << "actionslink_init" >>]
    /\ UNCHANGED << s_bluetooth, m_bt_status, m_streaming_active, settings, power_state,
                    ts, now, budgets, ticks >>

\* case Tus::PowerState::On, from the module being ready to the head of the
\* wait for the audio source
SetPowerState_On_Request ==
    /\ pc = "on_ready_wait"
    /\ link_ready
    /\ now' = (now + OnSettleDelayMs) % U32Mod
    /\ pc' = "on_src_wait"
    /\ fx' = [Fx("SetPowerState_On_Request") EXCEPT
                 !.chip = << "get_firmware_version", "set_power_state_ON" >>]
    /\ UNCHANGED << s_bluetooth, m_bt_status, m_streaming_active, settings, power_state,
                    queue, cur, ts, lines, link_ready, src_reported, idle_acct, budgets, ticks >>

\* The loop condition of the On handler's second wait.
OnWaitsForAudioSource(s) == s.audio_source = nullopt

\* case Tus::PowerState::On, after the wait for the audio source
SetPowerState_On_End ==
    /\ pc = "on_src_wait"
    /\ ~OnWaitsForAudioSource(s_bluetooth)
    /\ pc' = "ready"
    /\ power_state' = PowerStateAfter(cur)
    /\ cur' = NoMessage
    /\ fx' = [Fx("SetPowerState_On_End") EXCEPT !.notify = 1]
    /\ idle_acct' = [idle_acct EXCEPT !.requests = 0]
    /\ UNCHANGED << s_bluetooth, m_bt_status, m_streaming_active, settings, queue, ts,
                    now, lines, link_ready, src_reported, budgets, ticks >>

\* A handler that changes the session only, in one step.
Simple(type, s1, posts, chip) ==
    /\ Handle(type)
    /\ s_bluetooth' = s1
    /\ queue' = PostAll(Tail(queue), posts)
    /\ fx' = [Fx(type) EXCEPT !.posted = posts, !.chip = chip]
    /\ UNCHANGED << m_bt_status, m_streaming_active, settings, power_state, pc, cur, ts,
                    now, lines, link_ready, src_reported, idle_acct, budgets, ticks >>

\* [](const ActionsReady &)
ActionsReady ==
    Simple("ActionsReady", [s_bluetooth EXCEPT !.dfu_mode_is_active = FALSE], << >>, << >>)

\* BatteryLevel, ChargerStatus, NotifyAuxConnectionChange: sent on to the module
ReportTypes == {"BatteryLevel", "ChargerStatus", "NotifyAuxConnectionChange"}
Report ==
    \E type \in ReportTypes : Simple(type, s_bluetooth, << >>, << "send_" \o type >>)

\* [](const Teufel::Ux::Bluetooth::NotifyUsbConnectionChange &p)
NotifyUsbConnectionChange ==
    /\ Handle("NotifyUsbConnectionChange")
    /\ Simple("NotifyUsbConnectionChange",
              [s_bluetooth EXCEPT !.usb_plug_connected = Head(queue).connected],
              << >>, << "send_usb_connection_notification" >>)

\* StartPairing and MultichainPairing
PairingCommands == {"StartPairing", "MultichainPairing"}
StartPairing ==
    \E type \in PairingCommands :
        Simple(type, [s_bluetooth EXCEPT !.was_streaming = m_streaming_active],
               << >>, << "start_" \o type >>)

\* [](const Teufel::Ux::Bluetooth::StopPairingAndMultichain &p)
StopPairingAndMultichain ==
    Simple("StopPairingAndMultichain", s_bluetooth, << >>,
           (IF s_bluetooth.pairing_state = "BT_PAIRING" THEN << "stop_pairing" >> ELSE << >>)
           \o (IF s_bluetooth.csb_state # "DISABLED" THEN << "exit_csb_mode" >> ELSE << >>))

\* [](Tus::FactoryReset &)
FactoryReset ==
    /\ Handle("FactoryReset")
    /\ LET s1 == [s_bluetooth EXCEPT !.number_of_connected_devices = 0]
           posts == << RequestSoundIcon("POSITIVE_FEEDBACK", "PLAY_IMMEDIATELY", FALSE) >>
       IN  /\ s_bluetooth' = s1
           /\ queue' = PostAll(Tail(queue), posts)
           /\ fx' = [Fx("FactoryReset") EXCEPT
                        !.posted = posts,
                        !.chip = << "clear_bt_paired_device_list",
                                    "set_bt_absolute_avrcp_volume" >>]
           /\ idle_acct' = Account(idle_acct, s_bluetooth, s1, now, FALSE)
    /\ UNCHANGED << m_bt_status, m_streaming_active, settings, power_state, pc, cur, ts,
                    now, lines, link_ready, src_reported, budgets, ticks >>

\* [](const Teufel::Ux::Bluetooth::PlayPause &)
PlayPause ==
    Simple("PlayPause", s_bluetooth, << >>,
           IF s_bluetooth.audio_source \in {"A2DP1", "A2DP2"} THEN << "bt_play_pause" >>
           ELSE IF s_bluetooth.audio_source = "USB" THEN << "usb_play_pause" >>
           ELSE << >>)

\* SoundIconsActive that takes the sound icons for enabled.
SoundIconsActive_Always(setting) == TRUE

\* getProperty<Ux::Audio::SoundIconsActive>().value in the sound icon handlers
SoundIconsActive(setting) == setting

\* RecordsPowerOn for every sound icon.
RecordsPowerOn_AnyIcon(p) == TRUE

\* The request is the one whose start the handler records.
RecordsPowerOn(p) == p.sound_icon = "POWER_ON"

\* The BT-connected icon is asked for again when it comes before or during
\* the power-on icon.
RepostBtConnected(s, p, t) ==
    /\ p.sound_icon = "BT_CONNECTED"
    /\ \/ s.power_on_sound_icon_ts = 0
       \/ board_get_ms_since(s.power_on_sound_icon_ts, t) < BtConnectedHoldMs

\* [](const Tua::RequestSoundIcon &p)
RequestSoundIconHandler ==
    /\ Handle("RequestSoundIcon")
    /\ LET p == Head(queue)
           active == SoundIconsActive(sound_icons_active)
           repost == active /\ RepostBtConnected(s_bluetooth, p, now)
           \* vTaskDelay(50)
           t == IF repost THEN (now + BtConnectedRetryMs) % U32Mod ELSE now
           posts == IF repost
                    THEN << RequestSoundIcon("BT_CONNECTED", "PLAY_IMMEDIATELY", FALSE) >>
                    ELSE << >>
           s1 == IF RecordsPowerOn(p)
                 THEN [s_bluetooth EXCEPT !.power_on_sound_icon_ts = t]
                 ELSE s_bluetooth
       IN  \* the delay before the re-post counts as a tick of the model's bound
           /\ repost => ticks > 0
           /\ ticks' = IF repost THEN ticks - 1 ELSE ticks
           /\ now' = t
           /\ queue' = PostAll(Tail(queue), posts)
           /\ s_bluetooth' = IF active
                             THEN [s1 EXCEPT !.curr_sound_icon = p.sound_icon,
                                             !.curr_sound_icon_begin_ts = t]
                             ELSE s_bluetooth
           /\ fx' = [Fx("RequestSoundIcon") EXCEPT
                        !.posted = posts,
                        !.chip = IF active
                                 THEN << "play_sound_icon_" \o p.sound_icon >>
                                 ELSE << >>]
    /\ UNCHANGED << m_bt_status, m_streaming_active, settings, power_state, pc, cur, ts,
                    lines, link_ready, src_reported, idle_acct, budgets >>

\* [](const Tua::StopPlayingSoundIcon &p)
StopPlayingSoundIconHandler ==
    /\ Handle("StopPlayingSoundIcon")
    /\ Simple("StopPlayingSoundIcon",
              IF SoundIconsActive(sound_icons_active)
              THEN [s_bluetooth EXCEPT !.curr_sound_icon = "NONE"]
              ELSE s_bluetooth,
              << >>,
              IF SoundIconsActive(sound_icons_active)
              THEN << "stop_sound_icon_" \o Head(queue).sound_icon >>
              ELSE << >>)

---------------------------------------------------------------------------
(* The environment: the other tasks, the user, the board. *)

\* Another task posts a message (Teufel::Task::Bluetooth::postMessage).
PostMessage(m) ==
    /\ pc = "ready"
    /\ queue' = Post(queue, m)
    /\ fx' = Fx("postMessage")
    /\ UNCHANGED << s_bluetooth, m_bt_status, m_streaming_active, settings, power_state,
                    pc, cur, ts, now, lines, link_ready, src_reported, idle_acct, ticks >>

\* The System task asks for a power state, and waits for the answer before
\* it asks for the next.
PostSetPowerState(to) ==
    /\ commands > 0
    /\ queue = << >>
    /\ PostMessage(SetPowerState(to, "System"))
    /\ commands' = commands - 1
    /\ UNCHANGED events

\* The power-on sound icon is asked for.
PostPowerOnSoundIcon ==
    /\ events > 0
    /\ PostMessage(RequestSoundIcon("POWER_ON", "PLAY_IMMEDIATELY", FALSE))
    /\ events' = events - 1
    /\ UNCHANGED commands

\* The user asks for a factory reset.
PostFactoryReset ==
    /\ events > 0
    /\ PostMessage(Msg("FactoryReset"))
    /\ events' = events - 1
    /\ UNCHANGED commands

\* The user asks for pairing.
PostPairingCommand ==
    /\ events > 0
    /\ \E type \in PairingCommands : PostMessage(Msg(type))
    /\ events' = events - 1
    /\ UNCHANGED commands

\* The Audio task changes Tua::SoundIconsActive.
SoundIconsSetting ==
    /\ events > 0
    /\ pc = "ready"
    /\ sound_icons_active' = ~sound_icons_active
    /\ events' = events - 1
    /\ fx' = Fx("SoundIconsActive")
    /\ UNCHANGED << s_bluetooth, m_bt_status, m_streaming_active, jack_connected,
                    power_state, queue, pc, cur, ts, now, lines, link_ready,
                    src_reported, idle_acct, commands, ticks >>

---------------------------------------------------------------------------
(* The task after Callback_Init. *)

s_bluetooth_init ==
    [is_connected |-> FALSE,
     is_usb_source_available |-> FALSE,
     usb_plug_connected |-> FALSE,
     dfu_mode_is_active |-> FALSE,
     was_streaming |-> FALSE,
     has_received_power_off_confirmation |-> FALSE,
     update_bt_state |-> FALSE,
     update_bt_state_ts |-> 0,
     number_of_connected_devices |-> 0,
     pairing_state |-> "IDLE",
     csb_state |-> "DISABLED",
     audio_source |-> nullopt,
     power_on_sound_icon_ts |-> 0,
     curr_sound_icon |-> "NONE",
     curr_sound_icon_begin_ts |-> 0,
     last_no_bt_connection_ts |-> 0]

\* The task and the board after Callback_Init.
InitTask ==
    /\ s_bluetooth = s_bluetooth_init
    /\ m_bt_status = "None"
    /\ m_streaming_active = FALSE
    /\ sound_icons_active \in BOOLEAN
    /\ power_state = "Off"
    /\ jack_connected \in BOOLEAN
    /\ queue = << >>
    /\ pc = "ready"
    /\ cur = NoMessage
    /\ ts = 0
    /\ now = 0
    /\ bt_power = FALSE
    /\ bt_reset = TRUE
    /\ link_up = FALSE
    /\ link_ready = FALSE
    /\ fx = Fx("Callback_Init")
    /\ src_reported = FALSE
    /\ idle_acct = [zero_since |-> 0, requests |-> 0]

Init ==
    /\ InitTask
    /\ events = MaxEvents
    /\ commands = MaxCommands
    /\ ticks = MaxTicks

---------------------------------------------------------------------------
(* The status engine: the radio is switched on once, the module reports    *)
(* what the status is made of, the power-on sound icon is asked for.       *)

\* What the module reports in this specification.
ReportedAudioSources == {"A2DP1", "USB"}
ReportedPairingStates == {"BT_PAIRING"}
ReportedCsbStates == {"DISABLED", "BROADCASTING", "RECEIVER_CONNECTED"}

Next ==
    \/ \E d \in IdleDelays : Callback_Idle(d)
    \/ PumpDone
    \/ on_notify_system_ready
    \/ \E a \in ReportedAudioSources : on_notify_audio_source(a)
    \/ \E p \in ReportedPairingStates : on_notify_bt_pairing_state(p)
    \/ on_notify_bt_connection_state(TRUE)
    \/ \E c \in ReportedCsbStates : on_notify_csb_state(c, "UNKNOWN")
    \/ on_notify_bt_connection
    \/ ~bt_power /\ PostSetPowerState("On")
    \/ PostPowerOnSoundIcon
    \/ SetPowerState_On_Begin
    \/ SetPowerState_On_Request
    \/ SetPowerState_On_End
    \/ ActionsReady
    \/ Report
    \/ NotifyUsbConnectionChange
    \/ RequestSoundIconHandler

InitStatus == Init /\ ~jack_connected

Spec == InitStatus /\ [][Next]_vars

---------------------------------------------------------------------------
(* The power sequencer: the System task switches the radio on and off, the *)
(* module answers or does not.                                             *)

NextPower ==
    \/ PumpDone
    \/ on_notify_system_ready
    \/ \E p \in {"ON", "OFF"} : on_notify_power_state(p)
    \/ on_notify_audio_source("A2DP1")
    \/ ~bt_power /\ PostSetPowerState("On")
    \/ \E to \in {"Off", "PreOff"} : PostSetPowerState(to)
    \/ SetPowerState_Other
    \/ SetPowerState_Off_Begin
    \/ SetPowerState_Off_Poll
    \/ SetPowerState_Off_End
    \/ SetPowerState_On_Begin
    \/ SetPowerState_On_Request
    \/ SetPowerState_On_End
    \/ ActionsReady
    \/ Report
    \/ NotifyUsbConnectionChange

InitPower == Init /\ ~jack_connected /\ sound_icons_active

SpecPower == InitPower /\ [][NextPower]_vars

\* The task runs whenever it can: a handler that can take its next step
\* takes it (the FreeRTOS scheduler gives the task the processor, and
\* vTaskDelay returns).
SpecPowerFair ==
    /\ SpecPower
    /\ WF_vars(SetPowerState_Off_Poll)
    /\ WF_vars(SetPowerState_Off_End)
    /\ WF_vars(PumpDone)
    /\ WF_vars(SetPowerState_On_Request)
    /\ WF_vars(SetPowerState_On_End)

---------------------------------------------------------------------------
(* The idle accounting: devices connect and disconnect, the user resets    *)
(* the device, and the idle tick runs after short and after long pauses.   *)

MaxIdleEvents == 4
MaxIdleCommands == 2
MaxIdleTicks == 4

\* The pauses before an idle tick, in ms.
LongIdleDelays == {10, 150000, 300000}

NextIdle ==
    \/ \E d \in LongIdleDelays : Callback_Idle(d)
    \/ PumpDone
    \/ on_notify_system_ready
    \/ on_notify_audio_source("A2DP1")
    \/ on_notify_bt_connection
    \/ on_notify_bt_disconnection
    \/ PostFactoryReset
    \/ ~bt_power /\ PostSetPowerState("On")
    \/ bt_power /\ PostSetPowerState("PreOff")
    \/ SetPowerState_Other
    \/ SetPowerState_On_Begin
    \/ SetPowerState_On_Request
    \/ SetPowerState_On_End
    \/ ActionsReady
    \/ Report
    \/ NotifyUsbConnectionChange
    \/ FactoryReset
    \/ RequestSoundIconHandler

InitIdle ==
    /\ InitTask
    /\ ~jack_connected
    /\ ~sound_icons_active
    /\ events = MaxIdleEvents
    /\ commands = MaxIdleCommands
    /\ ticks = MaxIdleTicks

SpecIdle == InitIdle /\ [][NextIdle]_vars

---------------------------------------------------------------------------
(* The USB source: the module reports the USB source as it comes and goes, *)
(* with the sound icons disabled.                                          *)

\* The notifications of actionslink_event_handlers, by the name of their step.
Notifications ==
    {"on_notify_system_ready", "on_notify_power_state", "on_notify_audio_source",
     "on_notify_stream_state", "on_notify_bt_connection", "on_notify_bt_disconnection",
     "on_notify_bt_pairing_state", "on_notify_bt_connection_state", "on_notify_csb_state",
     "on_notify_usb_connected", "on_notify_dfu_mode"}

NextUsb ==
    \/ \E d \in IdleDelays : Callback_Idle(d)
    \/ PumpDone
    \/ on_notify_system_ready
    \/ on_notify_audio_source("USB")
    \/ \E b \in BOOLEAN : on_notify_usb_connected(b)
    \/ ~bt_power /\ PostSetPowerState("On")
    \/ SetPowerState_On_Begin
    \/ SetPowerState_On_Request
    \/ SetPowerState_On_End
    \/ ActionsReady
    \/ Report
    \/ NotifyUsbConnectionChange
    \/ StopPairingAndMultichain

InitUsb == Init /\ ~jack_connected /\ ~sound_icons_active

SpecUsb == InitUsb /\ [][NextUsb]_vars

---------------------------------------------------------------------------
(* The sound icons: the power-on icon, the pairing icons that the tick      *)
(* starts and stops, and the setting that disables them.                    *)

MaxIconEvents == 5
MaxIconCommands == 1
MaxIconTicks == 4

\* The pauses before an idle tick, in ms.
IconDelays == {250, 2000}

\* The pairing states the module reports.
IconPairingStates == {"CSB_RECEIVING", "BT_PAIRING", "IDLE"}

NextIcons ==
    \/ \E d \in IconDelays : Callback_Idle(d)
    \/ PumpDone
    \/ on_notify_system_ready
    \/ on_notify_audio_source("A2DP1")
    \/ \E p \in IconPairingStates : on_notify_bt_pairing_state(p)
    \/ ~bt_power /\ PostSetPowerState("On")
    \/ PostPowerOnSoundIcon
    \/ SoundIconsSetting
    \/ SetPowerState_On_Begin
    \/ SetPowerState_On_Request
    \/ SetPowerState_On_End
    \/ ActionsReady
    \/ Report
    \/ NotifyUsbConnectionChange
    \/ RequestSoundIconHandler
    \/ StopPlayingSoundIconHandler

InitIcons ==
    /\ InitTask
    /\ ~jack_connected
    /\ sound_icons_active
    /\ events = MaxIconEvents
    /\ commands = MaxIconCommands
    /\ ticks = MaxIconTicks

SpecIcons == InitIcons /\ [][NextIcons]_vars

---------------------------------------------------------------------------
(* Pairing while a stream plays: the user asks for pairing, the module      *)
(* reports the stream and the pairing state, with the sound icons disabled. *)

MaxPairEvents == 5
MaxPairCommands == 1
MaxPairTicks == 3

\* The pauses before an idle tick, in ms.
PairDelays == {250, 1000}

NextPairing ==
    \/ \E d \in PairDelays : Callback_Idle(d)
    \/ PumpDone
    \/ on_notify_system_ready
    \/ on_notify_audio_source("A2DP1")
    \/ \E b \in BOOLEAN : on_notify_stream_state(b)
    \/ \E p \in {"BT_PAIRING", "IDLE"} : on_notify_bt_pairing_state(p)
    \/ PostPairingCommand
    \/ ~bt_power /\ PostSetPowerState("On")
    \/ SetPowerState_On_Begin
    \/ SetPowerState_On_Request
    \/ SetPowerState_On_End
    \/ ActionsReady
    \/ Report
    \/ NotifyUsbConnectionChange
    \/ StartPairing
    \/ PlayPause

InitPairing ==
    /\ InitTask
    /\ ~jack_connected
    /\ ~sound_icons_active
    /\ events = MaxPairEvents
    /\ commands = MaxPairCommands
    /\ ticks = MaxPairTicks

SpecPairing == InitPairing /\ [][NextPairing]_vars

---------------------------------------------------------------------------
(* The chain and the USB source: the module reports the chain state, the   *)
(* USB source and its availability, with the sound icons enabled and the   *)
(* power-on sound icon asked for.                                          *)

MaxChainEvents == 4
MaxChainCommands == 1
MaxChainTicks == 3

\* The pauses before an idle tick, in ms.
ChainDelays == {250, 2000}

\* The chain states the module reports in this specification.
ChainCsbStates == {"DISABLED", "BROADCASTING"}

NextChain ==
    \/ \E d \in ChainDelays : Callback_Idle(d)
    \/ PumpDone
    \/ on_notify_system_ready
    \/ on_notify_audio_source("USB")
    \/ \E b \in BOOLEAN : on_notify_usb_connected(b)
    \/ \E c \in ChainCsbStates : on_notify_csb_state(c, "UNKNOWN")
    \/ ~bt_power /\ PostSetPowerState("On")
    \/ PostPowerOnSoundIcon
    \/ SetPowerState_On_Begin
    \/ SetPowerState_On_Request
    \/ SetPowerState_On_End
    \/ ActionsReady
    \/ Report
    \/ NotifyUsbConnectionChange
    \/ StopPairingAndMultichain
    \/ RequestSoundIconHandler

InitChain ==
    /\ InitTask
    /\ ~jack_connected
    /\ sound_icons_active
    /\ events = MaxChainEvents
    /\ commands = MaxChainCommands
    /\ ticks = MaxChainTicks

SpecChain == InitChain /\ [][NextChain]_vars

---------------------------------------------------------------------------
(* The status engine across the power cycle: the System task switches the  *)
(* radio on and off, and the idle tick runs in every power state.          *)

MaxOffEvents == 3
MaxOffCommands == 2
MaxOffTicks == 3

\* The pauses before an idle tick, in ms.
OffDelays == {250, 2000}

NextOff ==
    \/ \E d \in OffDelays : Callback_Idle(d)
    \/ PumpDone
    \/ on_notify_system_ready
    \/ on_notify_power_state("OFF")
    \/ on_notify_audio_source("A2DP1")
    \/ on_notify_bt_connection_state(TRUE)
    \/ ~bt_power /\ PostSetPowerState("On")
    \/ bt_power /\ PostSetPowerState("Off")
    \/ SetPowerState_Off_Begin
    \/ SetPowerState_Off_Poll
    \/ SetPowerState_Off_End
    \/ SetPowerState_On_Begin
    \/ SetPowerState_On_Request
    \/ SetPowerState_On_End
    \/ ActionsReady
    \/ Report
    \/ NotifyUsbConnectionChange

InitOff ==
    /\ InitTask
    /\ ~jack_connected
    /\ events = MaxOffEvents
    /\ commands = MaxOffCommands
    /\ ticks = MaxOffTicks

SpecOff == InitOff /\ [][NextOff]_vars

---------------------------------------------------------------------------
(* The broadcaster's power-off: the module reports the chain state and the *)
(* reason of a disconnection, in an idle tick or in a handler's wait.      *)

MaxBroadcastEvents == 3
MaxBroadcastCommands == 2
MaxBroadcastTicks == 2

\* The pause before an idle tick, in ms.
BroadcastDelays == {250}

\* actionslink_csb_receiver_disconnect_reason_t, as far as the callback tells
\* the values apart.
DisconnectReasons == {"UNKNOWN", "POWER_OFF"}

NextBroadcast ==
    \/ \E d \in BroadcastDelays : Callback_Idle(d)
    \/ PumpDone
    \/ on_notify_system_ready
    \/ on_notify_power_state("OFF")
    \/ on_notify_audio_source("A2DP1")
    \/ \E r \in DisconnectReasons : on_notify_csb_state("DISABLED", r)
    \/ ~bt_power /\ PostSetPowerState("On")
    \/ SetPowerState_Off_Begin
    \/ SetPowerState_Off_Poll
    \/ SetPowerState_Off_End
    \/ SetPowerState_On_Begin
    \/ SetPowerState_On_Request
    \/ SetPowerState_On_End
    \/ ActionsReady
    \/ Report
    \/ NotifyUsbConnectionChange

InitBroadcast ==
    /\ InitTask
    /\ ~jack_connected
    /\ ~sound_icons_active
    /\ events = MaxBroadcastEvents
    /\ commands = MaxBroadcastCommands
    /\ ticks = MaxBroadcastTicks

SpecBroadcast == InitBroadcast /\ [][NextBroadcast]_vars

\* The task runs whenever it can: it takes the next message off its queue,
\* and a handler that can take its next step takes it.
SpecBroadcastFair ==
    /\ SpecBroadcast
    /\ WF_vars(PumpDone)
    /\ WF_vars(SetPowerState_Off_Begin)
    /\ WF_vars(SetPowerState_Off_Poll)
    /\ WF_vars(SetPowerState_Off_End)
    /\ WF_vars(SetPowerState_On_Begin)
    /\ WF_vars(SetPowerState_On_Request)
    /\ WF_vars(SetPowerState_On_End)
    /\ WF_vars(ActionsReady)
    /\ WF_vars(Report)
    /\ WF_vars(NotifyUsbConnectionChange)

---------------------------------------------------------------------------
(* The tick counter's wraparound: the radio has been On since long, one    *)
(* device is connected, the power-on sound icon has settled, and the tick  *)
(* counter is about to return to 0.                                        *)

MaxWrapEvents == 2
MaxWrapTicks == 4

\* The pauses before an idle tick, in ms.
WrapDelays == {250, 500, 1000}

\* get_systick() at the begin: so long before the counter returns to 0, in ms.
WrapLeads == {100, 600, 1100}

InitWrap ==
    /\ s_bluetooth = [s_bluetooth_init EXCEPT !.audio_source = "A2DP1",
                                              !.is_connected = TRUE,
                                              !.number_of_connected_devices = 1,
                                              !.power_on_sound_icon_ts = UINT32_MAX,
                                              !.curr_sound_icon = "BT_CONNECTED"]
    /\ m_bt_status = "BluetoothConnected"
    /\ m_streaming_active = FALSE
    /\ sound_icons_active = TRUE
    /\ power_state = "On"
    /\ jack_connected = FALSE
    /\ queue = << >>
    /\ pc = "ready"
    /\ cur = NoMessage
    /\ ts = 0
    /\ now \in { U32Mod - lead : lead \in WrapLeads }
    /\ bt_power = TRUE
    /\ bt_reset = FALSE
    /\ link_up = TRUE
    /\ link_ready = TRUE
    /\ fx = Fx("Callback_Idle")
    /\ src_reported = TRUE
    /\ idle_acct = [zero_since |-> 0, requests |-> 0]
    /\ events = MaxWrapEvents
    /\ commands = 0
    /\ ticks = MaxWrapTicks

NextWrap ==
    \/ \E d \in WrapDelays : Callback_Idle(d)
    \/ PumpDone
    \/ \E p \in {"BT_PAIRING", "IDLE"} : on_notify_bt_pairing_state(p)
    \/ RequestSoundIconHandler
    \/ StopPlayingSoundIconHandler

SpecWrap == InitWrap /\ [][NextWrap]_vars

---------------------------------------------------------------------------
(* handle_new_bt_state as a function of the snapshot: every snapshot, the  *)
(* recomputation run on it up to MaxRuns times with nothing in between.    *)

MaxRuns == 2

Snapshots ==
    { [s_bluetooth_init EXCEPT !.csb_state = c, !.pairing_state = p, !.audio_source = a,
                               !.dfu_mode_is_active = f[1],
                               !.is_usb_source_available = f[2],
                               !.is_connected = f[3],
                               !.power_on_sound_icon_ts = t] :
        c \in CsbStates, p \in PairingStates, a \in AudioSources \cup {nullopt},
        f \in [1..3 -> BOOLEAN], t \in {0, UINT32_MAX} }

InitMapper ==
    /\ s_bluetooth \in Snapshots
    /\ m_bt_status \in {"None", "CsbChainMaster", "ChainSlave"}
    /\ m_streaming_active = FALSE
    /\ sound_icons_active \in BOOLEAN
    /\ power_state = "On"
    /\ jack_connected \in BOOLEAN
    /\ queue = << >>
    /\ pc = "ready"
    /\ cur = NoMessage
    /\ ts = 0
    /\ now = 0
    /\ bt_power = TRUE
    /\ bt_reset = FALSE
    /\ link_up = TRUE
    /\ link_ready = TRUE
    /\ fx = Fx("Callback_Init")
    /\ src_reported = (s_bluetooth.audio_source # nullopt)
    /\ idle_acct = [zero_since |-> 0, requests |-> 0]
    /\ events = 0
    /\ commands = 0
    /\ ticks = MaxRuns

\* One call of handle_new_bt_state().
Recompute ==
    /\ ticks > 0
    /\ LET r == handle_new_bt_state(s_bluetooth, m_bt_status, sound_icons_active,
                                    jack_connected)
       IN  /\ s_bluetooth' = r.s
           /\ m_bt_status' = r.status
           /\ queue' = PostAll(queue, r.posted)
           /\ fx' = [Fx("handle_new_bt_state") EXCEPT !.called = TRUE,
                                                      !.computed = r.computed,
                                                      !.commit = r.commit,
                                                      !.posted = r.posted,
                                                      !.audio = r.audio]
    /\ ticks' = ticks - 1
    /\ UNCHANGED << m_streaming_active, settings, power_state, pc, cur, ts, now, lines,
                    link_ready, src_reported, idle_acct, budgets >>

SpecMapper == InitMapper /\ [][Recompute]_vars

---------------------------------------------------------------------------
(* The claims. *)

\* C1: for every combination of chain state, pairing state, known audio
\* source, jack, dfu_mode_active, usb_source_available and is_connected, the
\* status handle_new_bt_state computes is the first match of the list: chain
\* state table, pairing state table, analog source with the jack connected,
\* DFU mode, USB source with the USB source available, connected, and
\* disconnected otherwise.
C1_MapperFollowsPriorityList ==
    LET s == s_bluetooth
        list == << << s.csb_state = "BROADCASTING", "CsbChainMaster" >>,
                   << s.csb_state = "RECEIVER_CONNECTED", "ChainSlave" >>,
                   << s.csb_state = "RECEIVER_PAIRING", "SlavePairing" >>,
                   << s.pairing_state = "BT_PAIRING", "BluetoothPairing" >>,
                   << s.pairing_state = "CSB_BROADCASTING", "CsbChainMaster" >>,
                   << s.pairing_state = "CSB_RECEIVING", "SlavePairing" >>,
                   << s.audio_source = "ANALOG" /\ jack_connected, "AuxConnected" >>,
                   << s.dfu_mode_is_active, "DfuMode" >>,
                   << s.audio_source = "USB" /\ s.is_usb_source_available, "UsbConnected" >>,
                   << s.is_connected, "BluetoothConnected" >>,
                   << TRUE, "BluetoothDisconnected" >> >>
        first == CHOOSE i \in 1..Len(list) :
                     list[i][1] /\ \A j \in 1..(i - 1) : ~list[j][1]
    IN  (/\ fx.act = "handle_new_bt_state"
         /\ s.audio_source # nullopt
         /\ (s.power_on_sound_icon_ts = UINT32_MAX \/ ~sound_icons_active))
        => fx.computed = list[first][2]

\* C1 witness: a snapshot on which the aux branch decides although DFU mode
\* is active, the USB source is available and a device is connected.
C1_Witness ==
    /\ fx.act = "handle_new_bt_state"
    /\ fx.computed = "AuxConnected"
    /\ s_bluetooth.dfu_mode_is_active
    /\ s_bluetooth.is_usb_source_available
    /\ s_bluetooth.is_connected

\* C2: the published status is committed only when the audio source is
\* known and the power-on sound icon timestamp is the settled sentinel or the
\* sound icons are disabled; never while the power-on sound icon has not been
\* played, or is playing, with the sound icons enabled.
C2_CommitOnlyWhenDecidable ==
    [][(fx'.commit \/ m_bt_status' # m_bt_status)
       => /\ fx'.commit
          /\ s_bluetooth.audio_source # nullopt
          /\ s_bluetooth'.audio_source # nullopt
          /\ \/ s_bluetooth'.power_on_sound_icon_ts = UINT32_MAX
             \/ ~sound_icons_active]_vars

\* C2 witness: a commit with the sound icons enabled, after the power-on
\* sound icon has settled.
C2_Witness ==
    /\ fx.act = "Callback_Idle"
    /\ fx.commit
    /\ sound_icons_active
    /\ s_bluetooth.power_on_sound_icon_ts = UINT32_MAX

\* C3 as claimed: in every state with audio_source = None the status mapper
\* is not invoked (the published status stays, nothing is forwarded to the
\* audio task) and no sound icon is requested, whatever notification, command
\* or tick comes.
C3_NoIndicatorWithoutAudioSource ==
    [][s_bluetooth.audio_source = nullopt
       => /\ fx'.computed = nullopt
          /\ ~fx'.commit
          /\ m_bt_status' = m_bt_status
          /\ fx'.audio = << >>
          /\ \A i \in 1..Len(fx'.posted) : fx'.posted[i].type # "RequestSoundIcon"]_vars

\* C3 as amended: in every state with audio_source = None the status mapper
\* is not invoked (no status is computed or committed, the published status
\* stays None, nothing is forwarded to the audio task) and the idle tick
\* requests no sound icon; the sound icons that the Bluetooth-connection
\* notification and the message handlers request are not covered.
C3_NoDecisionWithoutAudioSource ==
    [][s_bluetooth.audio_source = nullopt
       => /\ fx'.computed = nullopt
          /\ ~fx'.commit
          /\ m_bt_status = "None"
          /\ m_bt_status' = m_bt_status
          /\ fx'.audio = << >>
          /\ fx'.act = "Callback_Idle"
             => \A i \in 1..Len(fx'.posted) : fx'.posted[i].type # "RequestSoundIcon"]_vars

\* C3 witness: the idle tick has called handle_new_bt_state (the update was
\* pending and the gate open) while the audio source was unknown.
C3_Witness ==
    /\ fx.act = "Callback_Idle"
    /\ fx.called
    /\ s_bluetooth.audio_source = nullopt

\* C4: anti-flap.  When a recomputation yields CsbChainMaster while the
\* published status is CsbChainMaster, or ChainSlave while it is ChainSlave,
\* the update is suppressed: the status is not published again, no sound icon
\* is requested and nothing is forwarded to the audio task.
C4_AntiFlap ==
    [][(/\ fx'.called
        /\ fx'.computed \in {"CsbChainMaster", "ChainSlave"}
        /\ fx'.computed = m_bt_status)
       => /\ ~fx'.commit
          /\ m_bt_status' = m_bt_status
          /\ fx'.audio = << >>
          /\ \A i \in 1..Len(fx'.posted) : fx'.posted[i].type # "RequestSoundIcon"]_vars

\* C4 witness: an idle tick has recomputed ChainSlave while ChainSlave was
\* published, after an audio-source change.
C4_Witness ==
    /\ fx.act = "Callback_Idle"
    /\ fx.called
    /\ fx.computed = "ChainSlave"
    /\ m_bt_status = "ChainSlave"
    /\ ~fx.commit
    /\ s_bluetooth.audio_source = "USB"

\* C5: idempotence.  Running the recomputation twice on an unchanged
\* snapshot yields the same status both times, and the second run requests
\* no sound icon that the first run requested, for every snapshot.
C5_Idempotent ==
    [][(fx.act = "handle_new_bt_state" /\ fx'.act = "handle_new_bt_state")
       => /\ fx'.computed = fx.computed
          /\ m_bt_status' = m_bt_status
          /\ \A i \in 1..Len(fx'.posted) :
                 fx'.posted[i].type = "RequestSoundIcon"
                 => \A j \in 1..Len(fx.posted) : fx.posted[j] # fx'.posted[i]]_vars

\* C6: timing gate, safety.  A pending status update is never committed on
\* a tick at which fewer than 200 ms have passed since the most recent event
\* that set update_bt_state and update_bt_state_ts.
C6_NoCommitBeforeDebounce ==
    [][fx'.commit
       => /\ fx'.act = "Callback_Idle"
          /\ s_bluetooth.update_bt_state
          /\ (now' - s_bluetooth.update_bt_state_ts) % U32Mod >= 200]_vars

\* C6 witness: a commit 210 ms after the event, on the tick that follows a
\* tick at 200 ms which did not commit.
C6_Witness ==
    /\ fx.act = "Callback_Idle"
    /\ fx.commit
    /\ (now - s_bluetooth.update_bt_state_ts) % U32Mod = 210

\* C7: timing gate, response.  When a status update is pending, at least
\* 200 ms have passed since the event that set it, the audio source is known
\* and no power-on sound icon is in flight (its timestamp is the settled
\* sentinel, or the sound icons are disabled), the next idle tick commits the
\* recomputed status, unless the anti-flap rule suppresses it.
C7_CommitOnNextTick ==
    [][(/\ fx'.act = "Callback_Idle"
        /\ s_bluetooth.update_bt_state
        /\ (now' - s_bluetooth.update_bt_state_ts) % U32Mod >= 200
        /\ s_bluetooth.audio_source # nullopt
        /\ (s_bluetooth.power_on_sound_icon_ts = UINT32_MAX \/ ~sound_icons_active))
       => \/ fx'.commit
          \/ /\ fx'.called
             /\ fx'.computed \in {"CsbChainMaster", "ChainSlave"}
             /\ fx'.computed = m_bt_status]_vars

\* C8: the On command does not complete (does not notify its requester)
\* before an audio-source report has arrived from the module after the
\* command began; this for every On command, also one that follows an
\* earlier On/Off cycle.
C8_OnWaitsForAudioSourceReport ==
    fx.act = "SetPowerState_On_End" => src_reported

\* C9: the Off command clears has_received_power_off_confirmation before it
\* requests the power-off, then requests it, and at its exit always tears
\* the transport down and de-asserts the power and reset lines, whether or
\* not the module confirmed and whether or not the request failed; a
\* confirmation left from an earlier cycle never satisfies the wait.
C9_OffSequence ==
    [][/\ fx'.act = "SetPowerState_Off_Begin"
          => /\ ~s_bluetooth'.has_received_power_off_confirmation
             /\ fx'.chip \in {<< "set_power_state_OFF" >>, << "set_power_state_OFF_failed" >>}
             /\ pc' = "off_wait"
       /\ (pc \in {"off_wait", "off_pump"} /\ pc' \notin {"off_wait", "off_pump"})
          => /\ fx'.act = "SetPowerState_Off_End"
             /\ fx'.chip = << "actionslink_deinit" >>
             /\ ~link_up' /\ bt_reset' /\ ~bt_power'
             /\ fx'.notify = 1
       /\ (pc \in {"off_wait", "off_pump"} /\ ~s_bluetooth.has_received_power_off_confirmation
                                           /\ s_bluetooth'.has_received_power_off_confirmation)
          => fx'.act = "on_notify_power_state"]_vars

\* C9 witness: an Off command that followed an earlier command has ended
\* without a confirmation, the transport down and the lines de-asserted.
C9_Witness ==
    /\ fx.act = "SetPowerState_Off_End"
    /\ ~s_bluetooth.has_received_power_off_confirmation
    /\ commands <= MaxCommands - 2
    /\ ~link_up /\ bt_reset /\ ~bt_power

\* C10: the Off command always terminates.  Its wait ends as soon as the
\* module has reported the power state Off, and otherwise after the 1000 ms
\* timeout, after which the teardown is done although no confirmation came.
C10_OffTerminates ==
    /\ [](pc \in {"off_wait", "off_pump"}
          => (now - ts) % U32Mod < OffConfirmTimeoutMs + PollMs)
    /\ [][(pc = "off_wait" /\ s_bluetooth.has_received_power_off_confirmation)
           => fx'.act = "SetPowerState_Off_End"]_vars
    /\ [][fx'.act = "SetPowerState_Off_End"
           => \/ s_bluetooth.has_received_power_off_confirmation
              \/ (now - ts) % U32Mod >= OffConfirmTimeoutMs]_vars
    /\ (pc = "off_wait" ~> (pc = "ready" /\ ~link_up /\ ~bt_power))

\* C10 witness: the wait has ended on the module's report, 500 ms after the
\* request; and the teardown is done.
C10_Witness ==
    /\ fx.act = "SetPowerState_Off_End"
    /\ s_bluetooth.has_received_power_off_confirmation
    /\ (now - ts) % U32Mod = 500
    /\ pc = "ready"

\* C11: every power command handler returns, also when the module never
\* answers: a SetPowerState message that a handler has begun to handle is
\* eventually handled to its end, the handler's waits (for the power-off
\* confirmation, for the module being ready, for the audio source) being
\* ended by a timeout.
C11_PowerHandlersReturn ==
    (cur # NoMessage) ~> (cur = NoMessage)

\* C12: when an On command that follows an Off command starts to wait for
\* the module, the audio source is unknown, the pairing state is idle, the
\* chain state is disabled and the power-on sound icon timestamp is 0,
\* whatever they were before the Off command.  (The power line of the module
\* is low when the On command begins: only the Off command lowers it.)
C12_OffOnResetsSession ==
    [][(~bt_power /\ fx'.act = "SetPowerState_On_Begin")
       => /\ s_bluetooth'.audio_source = nullopt
          /\ s_bluetooth'.pairing_state = "IDLE"
          /\ s_bluetooth'.csb_state = "DISABLED"
          /\ s_bluetooth'.power_on_sound_icon_ts = 0]_vars

\* The idle tick has asked the module to power off.
AutoOffRequested(f) == f.act = "Callback_Idle" /\ f.chip = << "set_power_state_OFF" >>

\* C13: the idle tick asks for the power-off only when no device is connected
\* and none has been connected during the last 300000 ms: a device that
\* connects and disconnects within the interval restarts it.
C13_AutoOffNeedsFullInterval ==
    [][AutoOffRequested(fx')
       => /\ s_bluetooth.number_of_connected_devices = 0
          /\ board_get_ms_since(idle_acct.zero_since, now') >= AutoOffMs]_vars

\* C13 witness: the power-off has been requested after a device had
\* connected and disconnected, 300000 ms or more after the disconnection.
C13_Witness ==
    /\ AutoOffRequested(fx)
    /\ idle_acct.zero_since > 0
    /\ board_get_ms_since(idle_acct.zero_since, now) >= AutoOffMs

IdleTimerDue(s, t) ==
    /\ s.number_of_connected_devices = 0
    /\ s.last_no_bt_connection_ts # 0
    /\ board_get_ms_since(s.last_no_bt_connection_ts, t) >= AutoOffMs

C15_CountInRange ==
    s_bluetooth.number_of_connected_devices \in 0..2

\* C15 witness: a disconnection has arrived while no device was connected.
C15_Witness ==
    /\ fx.act = "on_notify_bt_disconnection"
    /\ fx.posted = << >>
    /\ s_bluetooth.number_of_connected_devices = 0

\* C16: a connection event that arrives while two devices are connected
\* changes nothing: the session is left as it was and no sound icon is
\* requested.
C16_ThirdConnectionIgnored ==
    [][(fx'.act = "on_notify_bt_connection" /\ s_bluetooth.number_of_connected_devices = 2)
       => /\ s_bluetooth' = s_bluetooth
          /\ fx'.posted = << >>
          /\ queue' = queue]_vars

\* C17: while a device is connected the idle timer is not running.
C17_NoTimerWhileConnected ==
    s_bluetooth.number_of_connected_devices > 0 => s_bluetooth.last_no_bt_connection_ts = 0

\* C17 witness: one of two connected devices has disconnected.
C17_Witness ==
    /\ fx.act = "on_notify_bt_disconnection"
    /\ s_bluetooth.number_of_connected_devices = 1
    /\ s_bluetooth.last_no_bt_connection_ts = 0

\* C18: a tick in a power state other than On asks for no power-off and
\* leaves the idle timer as it is.
C18_AutoOffOnlyWhenOn ==
    [][(fx'.act = "Callback_Idle" /\ power_state # "On")
       => /\ fx'.chip = << >>
          /\ s_bluetooth'.last_no_bt_connection_ts = s_bluetooth.last_no_bt_connection_ts]_vars

\* C18 witness: a tick in the power state PreOff, no device connected and
\* the idle timer started 300000 ms ago or earlier.
C18_Witness ==
    /\ fx.act = "Callback_Idle"
    /\ power_state = "PreOff"
    /\ IdleTimerDue(s_bluetooth, now)

\* C19: a notification callback only records what the module reported, sets
\* the pending update and posts messages; it does not wait and sends nothing
\* to the module: a notification that arrives within an actionslink_tick()
\* call takes no time and issues no command to the module.
C19_CallbacksDoNotBlock ==
    [][(InPump /\ fx'.act \in Notifications)
       => /\ now' = now
          /\ fx'.chip = << >>]_vars

\* C20: the handler of the request for the power-on sound icon records the
\* time of the request, with the sound icons enabled or disabled; and a tick
\* that comes more than 1670 ms after the recorded time sets the timestamp
\* to the settled value UINT32_MAX and schedules a status update.
C20_PowerOnSettlesAlways ==
    /\ [][(fx'.act = "RequestSoundIcon" /\ Head(queue).sound_icon = "POWER_ON")
          => s_bluetooth'.power_on_sound_icon_ts = now']_vars
    /\ [][(/\ fx'.act = "Callback_Idle"
           /\ s_bluetooth.power_on_sound_icon_ts \notin {0, UINT32_MAX}
           /\ board_get_ms_since(s_bluetooth.power_on_sound_icon_ts, now')
                  > SoundIconToLengthMapper("POWER_ON"))
          => /\ s_bluetooth'.power_on_sound_icon_ts = UINT32_MAX
             /\ s_bluetooth'.update_bt_state
             /\ s_bluetooth'.update_bt_state_ts = now']_vars

C24_ChainDisconnectedIcon ==
    [][(fx'.commit /\ m_bt_status' \notin {"SlavePairing", "CsbChainMaster", "ChainSlave"})
       => SelectSeq(fx'.posted, LAMBDA m : m.type = "RequestSoundIcon")
             = IF m_bt_status \in {"CsbChainMaster", "ChainSlave"}
               THEN << RequestSoundIcon("MULTISPEAKER_CHAIN_DISCONNECTED",
                                        "PLAY_AFTER_CURRENT", FALSE) >>
               ELSE << >>]_vars

\* C24 witness: a commit has left a chain status for BluetoothDisconnected,
\* which has no sound icon, and has asked for the chain-disconnected icon.
C24_Witness ==
    /\ fx.commit
    /\ m_bt_status = "BluetoothDisconnected"
    /\ s_bluetooth.csb_state = "DISABLED"
    /\ fx.posted = << RequestSoundIcon("MULTISPEAKER_CHAIN_DISCONNECTED",
                                       "PLAY_AFTER_CURRENT", FALSE) >>

\* C25: every commit sends the status it publishes to the Audio task, once;
\* a recomputation that commits nothing sends nothing and leaves the
\* published status as it is.
C25_CommitForwardsStatus ==
    [][fx'.act \in {"handle_new_bt_state", "Callback_Idle"}
       => IF fx'.commit
          THEN fx'.audio = << m_bt_status' >>
          ELSE fx'.audio = << >> /\ m_bt_status' = m_bt_status]_vars

\* C25 witness: a recomputation has committed a status other than the one
\* published before, and has sent it to the Audio task.
C25_Witness ==
    /\ fx.commit
    /\ fx.audio = << "BluetoothConnected" >>
    /\ m_bt_status = "BluetoothConnected"

\* C21: once the power-on timestamp is the settled value UINT32_MAX it stays
\* so: no step other than the Off command changes it.
C21_SettledForEver ==
    [][(/\ s_bluetooth.power_on_sound_icon_ts = UINT32_MAX
        /\ fx'.act \notin {"SetPowerState_Off_Begin", "SetPowerState_Off_End"})
       => s_bluetooth'.power_on_sound_icon_ts = UINT32_MAX]_vars

\* C21 (amended): once the power-on timestamp is the settled value it stays
\* so through every step but the Off command and the handling, with the
\* sound icons enabled, of a new request for the power-on sound icon.
C21_SettledUntilNextPowerOnIcon ==
    [][(/\ s_bluetooth.power_on_sound_icon_ts = UINT32_MAX
        /\ fx'.act \notin {"SetPowerState_Off_Begin", "SetPowerState_Off_End"}
        /\ ~(/\ fx'.act = "RequestSoundIcon"
              /\ Head(queue).sound_icon = "POWER_ON"
              /\ sound_icons_active))
       => s_bluetooth'.power_on_sound_icon_ts = UINT32_MAX]_vars

\* C21 witness: after the power-on sound icon has settled, the request for
\* another sound icon has been handled and the icon played.
C21_Witness ==
    /\ s_bluetooth.power_on_sound_icon_ts = UINT32_MAX
    /\ fx.act = "RequestSoundIcon"
    /\ fx.chip = << "play_sound_icon_MULTISPEAKER_CHAIN_SLAVE_PAIRING" >>

C27_PerpetualIconStart ==
    [][\A i \in DOMAIN fx'.posted :
          (fx'.posted[i].type = "RequestSoundIcon" /\ fx'.posted[i].loop_forever)
          => LET icon == fx'.posted[i].sound_icon
             IN  /\ \/ icon = "BT_PAIRING"
                          /\ "BluetoothPairing" \in {m_bt_status, m_bt_status'}
                    \/ icon = "MULTISPEAKER_CHAIN_SLAVE_PAIRING"
                          /\ "SlavePairing" \in {m_bt_status, m_bt_status'}
                 /\ s_bluetooth.curr_sound_icon # icon
                 /\ board_get_ms_since(s_bluetooth.curr_sound_icon_begin_ts, now')
                       >= CurrSoundIconLength(s_bluetooth)]_vars

\* C27 (amended): update_infinite_sound_icons, in the tick, asks for a
\* pairing icon only when the published status is the one the icon belongs
\* to, the icon is not the current sound icon, and the current sound icon
\* has played for its length; and every request for a repeated icon that is
\* not made there is the commit's request for the slave-pairing icon.
C27_TickStartsPerpetualIcon ==
    [][/\ \A i \in DOMAIN fx'.icons :
             fx'.icons[i].type = "RequestSoundIcon"
             => LET icon == fx'.icons[i].sound_icon
                IN  /\ fx'.icons[i].loop_forever
                    /\ \/ icon = "BT_PAIRING" /\ m_bt_status = "BluetoothPairing"
                       \/ icon = "MULTISPEAKER_CHAIN_SLAVE_PAIRING"
                             /\ m_bt_status = "SlavePairing"
                    /\ s_bluetooth.curr_sound_icon # icon
                    /\ board_get_ms_since(s_bluetooth.curr_sound_icon_begin_ts, now')
                          >= CurrSoundIconLength(s_bluetooth)
       /\ \A i \in DOMAIN fx'.posted :
             (/\ i > Len(fx'.icons)
              /\ fx'.posted[i].type = "RequestSoundIcon"
              /\ fx'.posted[i].loop_forever)
             => /\ fx'.commit
                /\ m_bt_status' = "SlavePairing"
                /\ fx'.posted[i].sound_icon = "MULTISPEAKER_CHAIN_SLAVE_PAIRING"]_vars

\* C27 witness: the tick has asked for the BT pairing icon, the current
\* sound icon being one with a length that has played for its length.
C27_Witness ==
    /\ fx.act = "Callback_Idle"
    /\ fx.icons = << RequestSoundIcon("BT_PAIRING", "PLAY_IMMEDIATELY", TRUE) >>
    /\ s_bluetooth.curr_sound_icon \in SoundIconsWithLength
    /\ board_get_ms_since(s_bluetooth.curr_sound_icon_begin_ts, now)
          >= CurrSoundIconLength(s_bluetooth)

\* C28: when the current sound icon is a pairing icon and the published
\* status is not the one it belongs to, the tick asks to stop it, and after
\* the request is handled it is not the current sound icon any more.
C28_PerpetualIconStops ==
    /\ [][(/\ fx'.act = "Callback_Idle"
           /\ \/ /\ s_bluetooth.curr_sound_icon = "BT_PAIRING"
                 /\ m_bt_status # "BluetoothPairing"
              \/ /\ s_bluetooth.curr_sound_icon = "MULTISPEAKER_CHAIN_SLAVE_PAIRING"
                 /\ m_bt_status # "SlavePairing")
          => \E i \in DOMAIN fx'.posted :
                 fx'.posted[i] = StopPlayingSoundIcon(s_bluetooth.curr_sound_icon)]_vars
    /\ [][fx'.act = "StopPlayingSoundIcon"
          => s_bluetooth'.curr_sound_icon # Head(queue).sound_icon]_vars

\* C26: the play/pause nudge is posted only by a commit of a status that is
\* not a pairing status, when was_streaming is set, and it clears
\* was_streaming; was_streaming is set only by the handler of a pairing
\* command, when a stream is active.  So at most one nudge is posted
\* between two pairing commands.
C26_OneNudgePerPairing ==
    /\ [][(\E i \in DOMAIN fx'.posted : fx'.posted[i] = Msg("PlayPause"))
          => /\ fx'.commit
             /\ s_bluetooth.was_streaming
             /\ ~s_bluetooth'.was_streaming
             /\ m_bt_status' \notin {"BluetoothPairing", "SlavePairing"}
             /\ Len(SelectSeq(fx'.posted, LAMBDA m : m = Msg("PlayPause"))) = 1]_vars
    /\ [][(~s_bluetooth.was_streaming /\ s_bluetooth'.was_streaming)
          => /\ fx'.act \in PairingCommands
             /\ m_streaming_active]_vars

\* C26 witness: the second tick has committed a status that is no pairing
\* status and has posted the nudge, once, for the pairing command that had
\* set was_streaming.
C26_Witness ==
    /\ fx.commit
    /\ fx.posted = << Msg("PlayPause") >>
    /\ s_bluetooth.pairing_state = "IDLE"
    /\ m_bt_status = "BluetoothDisconnected"
    /\ ~s_bluetooth.was_streaming
    /\ ticks = MaxPairTicks - 2

OtherActivity(s) ==
    { [s EXCEPT !.pairing_state = p, !.csb_state = c] :
        p \in PairingStates, c \in CsbStates }
    \cup { [s EXCEPT !.dfu_mode_is_active = dfu, !.was_streaming = w] :
             dfu \in BOOLEAN, w \in BOOLEAN }

BtConnectedHandled(q, f) ==
    /\ f.act = "RequestSoundIcon"
    /\ Head(q).sound_icon = "BT_CONNECTED"

\* C33: a request for the BT-connected sound icon that is handled before the
\* power-on sound icon was started (timestamp 0) or less than 500 ms after
\* its start sends no play command for the BT-connected icon to the module.
C33_BtConnectedWaitsForPowerOn ==
    [][(/\ BtConnectedHandled(queue, fx')
        /\ \/ s_bluetooth.power_on_sound_icon_ts = 0
           \/ board_get_ms_since(s_bluetooth.power_on_sound_icon_ts, now) < BtConnectedHoldMs)
       => fx'.chip # << "play_sound_icon_BT_CONNECTED" >>]_vars

\* C34: the BT-connected sound icon is played once for a connection: a
\* handler that plays it does not ask for it again, and a handler asks for
\* it again only while a power-on sound icon is in its first 500 ms, so that
\* the requests end when the power-on sound icon was never started.
C34_BtConnectedPlayedOnce ==
    [][BtConnectedHandled(queue, fx')
       => /\ fx'.chip = << "play_sound_icon_BT_CONNECTED" >> => fx'.posted = << >>
          /\ fx'.posted # << >> => s_bluetooth.power_on_sound_icon_ts # 0]_vars

\* C35: the requests of update_infinite_sound_icons come to an end while the
\* status and the sound icon setting stay as they are: once a play or stop
\* request for a repeated sound icon has been handled, a tick on the state
\* the handler leaves does not post the same request again, with the sound
\* icons enabled or disabled.
C35_RequestsComeToAnEnd ==
    [][fx'.act \in {"RequestSoundIcon", "StopPlayingSoundIcon"}
       => LET again == update_infinite_sound_icons(s_bluetooth', m_bt_status', now')
          IN  \A i \in DOMAIN again : again[i] # Head(queue)]_vars

\* C36: a commit posts the PlayPause nudge only when the published status
\* has been BluetoothPairing or SlavePairing since the pairing command that
\* set was_streaming.  (Between that command and the nudge the status is
\* changed by commits of pairing statuses only, any other commit posting the
\* nudge itself; so the status has been a pairing status since the command
\* exactly if it is one when the commit with the nudge begins.)
C36_NudgeOnlyAfterPairing ==
    [][(/\ fx'.commit
        /\ \E i \in DOMAIN fx'.posted : fx'.posted[i] = Msg("PlayPause"))
       => m_bt_status \in {"BluetoothPairing", "SlavePairing"}]_vars

\* C31: the published status follows the inputs of the status mapper.  When
\* the power state is On, the power-on sound icon has settled, the audio
\* source is known and the task waits for its next message with no status
\* update pending (so that no later tick recomputes the status unless an
\* input changes again), the published status is the one the mapper gives
\* for the session.
C31_StatusFollowsInputs ==
    (/\ pc = "ready"
     /\ power_state = "On"
     /\ power_on_sound_icon_played(s_bluetooth)
     /\ s_bluetooth.audio_source # nullopt
     /\ ~s_bluetooth.update_bt_state)
    => m_bt_status = MapBtState(s_bluetooth, jack_connected)

\* The chain states in which the device has a role in a chain.
ActiveChainStates == {"BROADCASTING", "RECEIVER_CONNECTED"}

\* C37: a report that the USB source is connected, arriving while the chain
\* state is BROADCASTING or RECEIVER_CONNECTED, posts no
\* StopPairingAndMultichain message (the only message whose handler sends
\* exit_csb_mode to the module), whether or not the published status shows
\* the chain already.
C37_UsbKeepsChain ==
    [][(/\ fx'.act = "on_notify_usb_connected"
        /\ s_bluetooth.csb_state \in ActiveChainStates)
       => fx'.posted = << >>]_vars

\* C32: while the module is powered down, from the end of an Off command to
\* the begin of the next On command, an idle tick commits no status, posts
\* no sound icon request of a commit and forwards no status to the audio
\* task, with the sound icons enabled or disabled.
C32_NoDecisionsWhileOff ==
    [][(fx'.act = "Callback_Idle" /\ ~bt_power)
       => /\ ~fx'.commit
          /\ fx'.audio = << >>
          /\ fx'.posted = fx'.icons]_vars

\* The Off command that on_notify_csb_state posts.
BroadcasterPowerOff == SetPowerState("Off", "BroadcasterPowerOff")

\* C38: an Off command that a chain-state notification has posted for the
\* broadcaster's power-off is handled as every Off command: the task comes
\* to handle it, and then the transport is torn down and the power and reset
\* lines of the module are de-asserted.
C38_BroadcasterPowerOffIsHandled ==
    /\ (\E i \in DOMAIN queue : queue[i] = BroadcasterPowerOff)
          ~> (cur = BroadcasterPowerOff)
    /\ (cur = BroadcasterPowerOff)
          ~> (cur = NoMessage /\ ~link_up /\ ~bt_power /\ bt_reset)

\* C39: every power command that a handler has begun to handle is answered
\* by one SyncPrimitive::notify, and the answer comes when the work of the
\* command is done: for On with the audio source known, for Off with the
\* transport torn down and the power and reset lines de-asserted, for
\* PreOff 1780 ms after the handler began, for any other state at once.
C39_CommandsAreAnswered ==
    /\ [][fx'.notify # 0
          => /\ fx'.notify = 1
             /\ fx'.act = "SetPowerState_On_End" => s_bluetooth'.audio_source # nullopt
             /\ fx'.act = "SetPowerState_Off_End" => ~link_up' /\ ~bt_power' /\ bt_reset'
             /\ fx'.act = "SetPowerState_PreOff"
                  => now' = (now + PreOffDelayMs) % U32Mod
             /\ fx'.act \notin {"SetPowerState_On_End", "SetPowerState_Off_End",
                                "SetPowerState_PreOff"} => now' = now]_vars
    /\ (cur # NoMessage) ~> (fx.notify = 1)

\* C40: with the power-on timestamp at the settled value UINT32_MAX the
\* 1000 ms condition of the gate holds at every value of the tick counter:
\* a tick that finds a status update pending for more than 200 ms calls
\* handle_new_bt_state, also when the counter has just returned to 0.
C40_SettledNeverBlocks ==
    [][(/\ fx'.act = "Callback_Idle"
        /\ power_on_sound_icon_played(s_bluetooth)
        /\ s_bluetooth.update_bt_state
        /\ board_get_ms_since(s_bluetooth.update_bt_state_ts, now')
              > c_update_bt_state_ts_duration)
       => fx'.called]_vars

=============================================================================
